---------------------------- MODULE Spec2Model ----------------------------
(***************************************************************************)
(* A model of obsidian_to_notion.py: the attachment uploader and its       *)
(* cache, the link normaliser, the inline rich-text formatter, the block   *)
(* builder callbacks, and the page creation / batch submission loop driven *)
(* by main.                                                                *)
(*                                                                         *)
(* Text is modelled as a sequence of one-character strings, and every      *)
(* regular expression of the source is modelled by the scan the regex      *)
(* engine performs (leftmost match, greedy quantifiers, alternatives in    *)
(* order).                                                                 *)
(***************************************************************************)
EXTENDS Integers, Sequences, FiniteSets, TLC

\* ------------------------------------------------------------------ bounds
\* Number of FileUploader.upload calls explored in one run.
MaxCalls == 3
\* Number of markdown files in the list main iterates over.
MaxDocs == 3
\* Number of blocks the block builder yields for one document.
MaxBlocks == 4
\* Stand-in for batch_size = 100 (create_notion_page), scaled down so that
\* documents of at most MaxBlocks blocks span several batches.
BatchSize == 2
\* Stand-in for the 2000-character cap on a run's content, scaled down so
\* that the inputs explored are long enough to be truncated.
ContentLimit == 3
\* Number of characters of a free-form formatter input.
MaxLen == 4
\* Number of characters of a link text and of a code span body.
MaxText == 2
\* Number of characters of the path of a link URL.
MaxWord == 3
\* Number of tokens (embeds, cross-references, plain characters) of a
\* link normaliser input.
MaxTokens == 2

VARIABLES
    \* FileUploader
    cache,        \* self.cache: cache key -> URL
    stats,        \* self.stats
    uplog,        \* history: one record per upload call
    \* main / create_notion_page
    files,        \* markdown_files: the titles (stems) in list order
    pc,           \* position of the run: "loop", "batch", "single", "done"
    idx,          \* 1-based index of the document being migrated
    page_map,     \* title -> page URL
    successful,
    failed,
    attempts,     \* history: indices of the documents attempted, in order
    results,      \* history: outcome of each attempted document
    pages,        \* number of pages created so far (fresh URLs)
    page_url,     \* URL of the page of the current document
    nblocks,      \* len(blocks) of the current document
    bi,           \* i of the batch loop (0-based start of the batch)
    bk,           \* k of the per-block loop (0-based position in the batch)
    calls,        \* history: blocks.children.append calls of the current document
    rendered,     \* the current document's text after convert_obsidian_links
    \* text functions
    text,         \* input text of the pure function under check
    pmap,         \* page map handed to convert_obsidian_links
    out,          \* result of convert_obsidian_links
    shape,        \* how the input text was put together
    blocks,       \* converter.blocks
    current_list_type,  \* converter.current_list_type
    phase,        \* "in" before the function is applied, "out" after
    \* parse_markdown_to_blocks: the attachment rewrite pass
    md_dir,       \* Path(markdown_file_path).parent
    found,        \* result of resolve_relative_path
    uploaded_images,  \* src -> hosted URL
    pos,          \* position in the text of the scan of re.sub (1-based)
    imglog,       \* history: one record per call of upload_and_replace_image
    \* markdown(content): the renderer calling the converter
    pending,      \* the callbacks the renderer has still to make, in order
    origin        \* history: for each block, the callback that appended it

upVars   == <<cache, stats, uplog>>
mainVars == <<files, pc, idx, page_map, successful, failed, attempts, results,
              pages, page_url, nblocks, bi, bk, calls, rendered>>
textVars == <<text, pmap, out, shape, blocks, current_list_type, phase>>
imgVars  == <<md_dir, found, uploaded_images, pos, imglog>>
renderVars == <<pending, origin>>
vars     == <<upVars, mainVars, textVars, imgVars, renderVars>>

\* ------------------------------------------------------------ text helpers
None == <<>>

\* the backtick character (the lexer takes no backtick in a string)
BT == "BACKTICK"

Min(a, b) == IF a < b THEN a ELSE b

\* s[:n]
Take(s, n) == SubSeq(s, 1, Min(n, Len(s)))

\* s[i:j] with 1-based inclusive bounds; empty when j < i
Slice(s, i, j) == IF j < i THEN <<>> ELSE SubSeq(s, i, j)

\* first position >= i of s holding character c, or 0
FindChar(s, i, c) ==
    LET J == {j \in i..Len(s) : s[j] = c}
    IN  IF J = {} THEN 0 ELSE CHOOSE j \in J : \A k \in J : j <= k

\* s has the characters of lit at position i
HasAt(s, i, lit) ==
    /\ i >= 1
    /\ i + Len(lit) - 1 <= Len(s)
    /\ \A k \in 1..Len(lit) : s[i + k - 1] = lit[k]

Digits == <<"0", "1", "2", "3", "4", "5", "6", "7", "8", "9">>
IsDigit(c) == \E d \in 1..10 : Digits[d] = c

\* str(n) for n >= 0
RECURSIVE IntToStr(_)
IntToStr(n) ==
    IF n < 10 THEN <<Digits[n + 1]>>
    ELSE IntToStr(n \div 10) \o <<Digits[(n % 10) + 1]>>

\* --------------------------------------------------------- the file system
(***************************************************************************)
(* A path is a sequence of components from the root of the file system,    *)
(* each component a sequence of characters.  The vault is /v and /o lies   *)
(* outside it.  The files are named by their resolved path; a.png and      *)
(* sub/a.png are byte-identical (same content hash) files at different     *)
(* places.                                                                 *)
(***************************************************************************)
V      == <<"v">>
O      == <<"o">>
SUB    == <<"s", "u", "b">>
DOTSUB == <<".", "s", "u", "b">>
ROOT   == <<"r", "o", "o", "t">>
ATTACHMENTS == <<"a", "t", "t", "a", "c", "h", "m", "e", "n", "t", "s">>
ASSETS == <<"a", "s", "s", "e", "t", "s">>
A_PNG  == <<"a", ".", "p", "n", "g">>
P_PNG  == <<"p", ".", "p", "n", "g">>
X_Y    == <<"x", " ", "y">>
BR_PNG == <<"[", "a", "]", ".", "p", "n", "g">>

\* Path(vault_dir).resolve()
vault_path == <<V>>

FsFile(parts, suffix, hash) ==
    [kind |-> "file", parts |-> parts, name |-> parts[Len(parts)],
     suffix |-> suffix, hash |-> hash, large |-> FALSE, readable |-> TRUE]

FS ==
    [p \in {"/v/a.png", "/v/sub/a.png", "/v/.sub/a.png", "/v/root/a.png",
            "/v/attachments/p.png", "/v/assets/p.png", "/v/x y", "/o/a.png",
            "/v/sub/[a].png",
            "/v/d.pdf", "/v/n.txt", "/v/big.bin", "/v/locked.png",
            "/v/dir", "/v/gone"} |->
        CASE p = "/v/a.png"      -> FsFile(<<V, A_PNG>>, ".png", "h1")
          [] p = "/v/sub/a.png"  -> FsFile(<<V, SUB, A_PNG>>, ".png", "h1")
          [] p = "/v/.sub/a.png" -> FsFile(<<V, DOTSUB, A_PNG>>, ".png", "h6")
          [] p = "/v/root/a.png" -> FsFile(<<V, ROOT, A_PNG>>, ".png", "h7")
          [] p = "/v/attachments/p.png" ->
                FsFile(<<V, ATTACHMENTS, P_PNG>>, ".png", "h8")
          [] p = "/v/assets/p.png" -> FsFile(<<V, ASSETS, P_PNG>>, ".png", "h9")
          [] p = "/v/x y"        -> FsFile(<<V, X_Y>>, "", "h10")
          [] p = "/o/a.png"      -> FsFile(<<O, A_PNG>>, ".png", "h11")
          [] p = "/v/sub/[a].png" -> FsFile(<<V, SUB, BR_PNG>>, ".png", "h12")
          [] p = "/v/d.pdf"      ->
                FsFile(<<V, <<"d", ".", "p", "d", "f">> >>, ".pdf", "h2")
          [] p = "/v/n.txt"      ->
                FsFile(<<V, <<"n", ".", "t", "x", "t">> >>, ".txt", "h3")
          [] p = "/v/big.bin"    ->
                [FsFile(<<V, <<"b", "i", "g", ".", "b", "i", "n">> >>, ".bin", "h4")
                    EXCEPT !.large = TRUE]
          [] p = "/v/locked.png" ->
                [FsFile(<<V, <<"l", "o", "c", "k", "e", "d", ".", "p", "n", "g">> >>,
                        ".png", "h5") EXCEPT !.readable = FALSE]
          [] p = "/v/dir"        ->
                [FsFile(<<V, <<"d", "i", "r">> >>, "", "") EXCEPT !.kind = "dir"]
          [] OTHER               ->
                [FsFile(<<V, <<"g", "o", "n", "e">> >>, "", "")
                    EXCEPT !.kind = "missing"]]

Paths == DOMAIN FS

\* the HTTP outcome of the PUT: 200/201, 422, or anything else
Responses == {"created", "exists", "error"}

ImageSuffixes == {".png", ".jpg", ".jpeg", ".gif", ".webp", ".svg", ".bmp"}

\* "/".join(parts), from the n-th part on
RECURSIVE JoinParts(_, _)
JoinParts(parts, n) ==
    IF n > Len(parts) THEN <<>>
    ELSE IF n = Len(parts) THEN parts[n]
    ELSE parts[n] \o <<"/">> \o JoinParts(parts, n + 1)

\* s.split('/'), the part being collected starting at start
RECURSIVE SplitSlash(_, _, _)
SplitSlash(s, i, start) ==
    IF i > Len(s) THEN << Slice(s, start, Len(s)) >>
    ELSE IF s[i] = "/"
    THEN << Slice(s, start, i - 1) >> \o SplitSlash(s, i + 1, i + 1)
    ELSE SplitSlash(s, i + 1, start)

\* hashlib.md5(str(file_path).encode()).hexdigest()[:8]: eight hexadecimal
\* digits that depend on the path
path_hash(file_path) ==
    IF file_path = "/o/a.png" THEN <<"3", "c", "0", "1", "9", "e", "7", "a">>
    ELSE <<"0", "0", "0", "0", "0", "0", "0", "0">>

\* get_unique_path_for_file: the parent directory relative to the vault,
\* 'root' for a file at the top of the vault, a hash for a file outside it
get_unique_path_for_file(file_path) ==
    LET parts == FS[file_path].parts
        n     == Len(vault_path)
    IN  IF Len(parts) > n /\ SubSeq(parts, 1, n) = vault_path
        THEN LET parent_path == JoinParts(SubSeq(parts, n + 1, Len(parts) - 1), 1)
             IN  IF parent_path = <<".">> \/ parent_path = <<>>
                 THEN ROOT
                 ELSE parent_path
        ELSE path_hash(file_path)

\* ----------------------------------------------------------- upload_to_github
\* s.replace('\\', '/')
backslash_to_slash(s) == [k \in 1..Len(s) |-> IF s[k] = "\\" THEN "/" ELSE s[k]]

\* plausible bug (and the repair of the code): nothing is stripped
strip_dot_slash_off(s) == s

\* s.strip('./')
strip_dot_slash(s) ==
    LET K == {k \in 1..Len(s) : s[k] \notin {".", "/"}}
    IN  IF K = {} THEN <<>>
        ELSE Slice(s, CHOOSE k \in K : \A j \in K : k <= j,
                      CHOOSE k \in K : \A j \in K : k >= j)

\* urllib.parse.quote(c, safe='') of one character: letters, digits and
\* _ . - ~ are kept, the other characters of the texts explored here are
\* percent-encoded
quote_char(c) ==
    CASE c = " " -> <<"%", "2", "0">>
      [] c = "!" -> <<"%", "2", "1">>
      [] c = "%" -> <<"%", "2", "5">>
      [] c = "(" -> <<"%", "2", "8">>
      [] c = ")" -> <<"%", "2", "9">>
      [] c = "/" -> <<"%", "2", "F">>
      [] c = "[" -> <<"%", "5", "B">>
      [] c = "]" -> <<"%", "5", "D">>
      [] OTHER   -> <<c>>

\* urllib.parse.quote(s, safe='')
RECURSIVE quote(_)
quote(s) == IF s = <<>> THEN <<>> ELSE quote_char(s[1]) \o quote(Tail(s))

\* s.replace('//', '/'), scanning from i
RECURSIVE collapse_slashes(_, _)
collapse_slashes(s, i) ==
    IF i > Len(s) THEN <<>>
    ELSE IF HasAt(s, i, <<"/", "/">>) THEN <<"/">> \o collapse_slashes(s, i + 2)
    ELSE <<s[i]>> \o collapse_slashes(s, i + 1)

\* config.get('folder', 'uploads')
UploadsFolder == <<"u", "p">>

\* https://raw.githubusercontent.com/<owner>/<repo>/<branch>/
RawBase == <<"h", "t", "t", "p", "s", ":", "/", "/", "r", "/">>

\* github_api_path: the destination of the file in the repository
github_api_path(file_path, unique_path) ==
    LET stripped == strip_dot_slash(backslash_to_slash(unique_path))
        safe_unique_path == IF stripped = <<>> \/ stripped = <<".">>
                            THEN ROOT ELSE stripped
        path_parts == SplitSlash(safe_unique_path, 1, 1)
        encoded_path_parts == [k \in 1..Len(path_parts) |-> quote(path_parts[k])]
        safe_file_name == quote(FS[file_path].name)
    IN  collapse_slashes(UploadsFolder \o <<"/">> \o JoinParts(encoded_path_parts, 1)
                         \o <<"/">> \o safe_file_name, 1)

\* upload_to_github: the URL, or None
upload_to_github(file_path, unique_path, resp) ==
    LET f == FS[file_path] IN
    IF f.kind = "missing" THEN None
    ELSE IF f.kind # "file" THEN None
    ELSE IF f.large THEN None
    ELSE IF ~f.readable THEN None
    ELSE IF resp \in {"created", "exists"}
         THEN RawBase \o github_api_path(file_path, unique_path)
         ELSE None

\* ----------------------------------------------------------- FileUploader
\* plausible bug: a cache key made of the content hash alone
get_cache_key_hash_only(file_path) ==
    IF FS[file_path].readable THEN <<FS[file_path].hash>> ELSE <<file_path>>

\* FileUploader._get_cache_key
get_cache_key(file_path) ==
    IF FS[file_path].readable
    THEN <<file_path, FS[file_path].hash>>
    ELSE <<file_path>>

\* plausible bug: the URL is never stored
cache_store_skip(c, key, url) == c

\* self.cache[cache_key] = url
cache_store(c, key, url) ==
    [k \in DOMAIN c \cup {key} |-> IF k = key THEN url ELSE c[k]]

\* the counter a successful upload increments
stat_of_suffix(suffix) ==
    IF suffix = ".pdf" THEN "pdfs"
    ELSE IF suffix \in ImageSuffixes THEN "images"
    ELSE "other"

Bump(s, field) == [s EXCEPT ![field] = @ + 1]

\* plausible bug: the file is classified and counted before the cache is
\* looked up, so that a cache hit is counted as an upload again
upload_counting_hits(c, s, file_path, unique_path, resp) ==
    LET f == FS[file_path] IN
    IF f.kind = "missing" THEN
        [cache |-> c, stats |-> Bump(s, "failed"), url |-> None,
         invoked |-> FALSE, key |-> None]
    ELSE IF f.kind # "file" THEN
        [cache |-> c, stats |-> Bump(s, "skipped_dirs"), url |-> None,
         invoked |-> FALSE, key |-> None]
    ELSE
        LET key == get_cache_key(file_path) IN
        IF key \in DOMAIN c THEN
            [cache |-> c, stats |-> Bump(s, stat_of_suffix(f.suffix)),
             url |-> c[key], invoked |-> FALSE, key |-> key]
        ELSE
            LET url == upload_to_github(file_path, unique_path, resp) IN
            IF url # None THEN
                [cache |-> cache_store(c, key, url),
                 stats |-> Bump(s, stat_of_suffix(f.suffix)),
                 url |-> url, invoked |-> TRUE, key |-> key]
            ELSE
                [cache |-> c, stats |-> Bump(s, "failed"), url |-> None,
                 invoked |-> TRUE, key |-> key]

(***************************************************************************)
(* FileUploader.upload: the new cache and stats, the URL returned and      *)
(* whether the provider function was invoked.                              *)
(***************************************************************************)
upload(c, s, file_path, unique_path, resp) ==
    LET f == FS[file_path] IN
    IF f.kind = "missing" THEN
        [cache |-> c, stats |-> Bump(s, "failed"), url |-> None,
         invoked |-> FALSE, key |-> None]
    ELSE IF f.kind # "file" THEN
        [cache |-> c, stats |-> Bump(s, "skipped_dirs"), url |-> None,
         invoked |-> FALSE, key |-> None]
    ELSE
        LET key == get_cache_key(file_path) IN
        IF key \in DOMAIN c THEN
            [cache |-> c, stats |-> s, url |-> c[key], invoked |-> FALSE,
             key |-> key]
        ELSE
            LET url == upload_to_github(file_path, unique_path, resp) IN
            IF url # None THEN
                [cache |-> cache_store(c, key, url),
                 stats |-> Bump(s, stat_of_suffix(f.suffix)),
                 url |-> url, invoked |-> TRUE, key |-> key]
            ELSE
                [cache |-> c, stats |-> Bump(s, "failed"), url |-> None,
                 invoked |-> TRUE, key |-> key]

\* FileUploader.__init__
InitUploader ==
    /\ cache = <<>>
    /\ stats = [images |-> 0, pdfs |-> 0, other |-> 0, failed |-> 0,
                skipped_dirs |-> 0]
    /\ uplog = <<>>

\* one call uploader.upload(file_path, get_unique_path_for_file(file_path))
Upload(file_path, resp) ==
    /\ Len(uplog) < MaxCalls
    /\ \E r \in {upload(cache, stats, file_path,
                        get_unique_path_for_file(file_path), resp)} :
           /\ cache' = r.cache
           /\ stats' = r.stats
           /\ uplog' = Append(uplog, [path |-> file_path, key |-> r.key,
                                       invoked |-> r.invoked, url |-> r.url])
    /\ UNCHANGED <<mainVars, textVars, imgVars, renderVars>>

\* ------------------------------------------------- convert_obsidian_links
\* r'!\[\[([^\]]+)\]\]' matched at i: the position of the first closing
\* bracket (group 1 is s[i+3 .. j-1], the match ends at j+1), or 0
embed_match(s, i) ==
    IF HasAt(s, i, <<"!", "[", "[">>)
    THEN LET j == FindChar(s, i + 3, "]")
         IN  IF j > i + 3 /\ HasAt(s, j, <<"]", "]">>) THEN j ELSE 0
    ELSE 0

\* re.sub(r'!\[\[([^\]]+)\]\]', r'![](\1)', content), scanning from i
RECURSIVE sub_embeds(_, _)
sub_embeds(s, i) ==
    IF i > Len(s) THEN <<>>
    ELSE LET j == embed_match(s, i) IN
         IF j # 0
         THEN <<"!", "[", "]", "(">> \o Slice(s, i + 3, j - 1) \o <<")">>
              \o sub_embeds(s, j + 2)
         ELSE <<s[i]>> \o sub_embeds(s, i + 1)

\* r'\[\[([^\]]+)\]\]' matched at i: the position of the first closing
\* bracket (group 1 is s[i+2 .. j-1], the match ends at j+1), or 0
wiki_match(s, i) ==
    IF HasAt(s, i, <<"[", "[">>)
    THEN LET j == FindChar(s, i + 2, "]")
         IN  IF j > i + 2 /\ HasAt(s, j, <<"]", "]">>) THEN j ELSE 0
    ELSE 0

\* plausible bug: the display text is used as the page name
replace_wiki_link_by_display(link_content, pm) ==
    LET bar     == FindChar(link_content, 1, "|")
        display == IF bar # 0
                   THEN Slice(link_content, bar + 1, Len(link_content))
                   ELSE link_content
    IN  IF display \in DOMAIN pm
        THEN <<"[">> \o display \o <<"]", "(">> \o pm[display] \o <<")">>
        ELSE display

\* replace_wiki_link
replace_wiki_link(link_content, pm) ==
    LET bar       == FindChar(link_content, 1, "|")
        page_name == IF bar # 0 THEN Slice(link_content, 1, bar - 1)
                     ELSE link_content
        display   == IF bar # 0
                     THEN Slice(link_content, bar + 1, Len(link_content))
                     ELSE link_content
    IN  IF page_name \in DOMAIN pm
        THEN <<"[">> \o display \o <<"]", "(">> \o pm[page_name] \o <<")">>
        ELSE display

\* re.sub(r'\[\[([^\]]+)\]\]', replace_wiki_link, content), scanning from i
RECURSIVE sub_wiki_links(_, _, _)
sub_wiki_links(s, i, pm) ==
    IF i > Len(s) THEN <<>>
    ELSE LET j == wiki_match(s, i) IN
         IF j # 0
         THEN replace_wiki_link(Slice(s, i + 2, j - 1), pm)
              \o sub_wiki_links(s, j + 2, pm)
         ELSE <<s[i]>> \o sub_wiki_links(s, i + 1, pm)

\* convert_obsidian_links(content, vault_dir, page_map)
convert_obsidian_links(content, pm) ==
    sub_wiki_links(sub_embeds(content, 1), 1, pm)

\* ------------------------------------------------------- _parse_rich_text
\* a rich-text run: its content, its annotation ("none" when it has no
\* "annotations" key) and its link URL (None when it has no "link" key)
Run(content, ann, url) == [content |-> content, ann |-> ann, url |-> url]

\* plausible bug: the content of a run is not capped
truncate_off(s) == s

\* s[:2000]
truncate(s) == Take(s, ContentLimit)

\* f"__LINK_{link_counter}__"
placeholder(n) ==
    <<"_", "_", "L", "I", "N", "K", "_">> \o IntToStr(n) \o <<"_", "_">>

(***************************************************************************)
(* r'(?<!\!)\[([^\]]+)\]\(([^)]+\)[^)]*|[^)]+)\)' matched at i: None, or   *)
(* the link text, the link URL and the last position of the match.  The    *)
(* first alternative of group 2 runs over the first closing parenthesis up *)
(* to the second one when there is a second one anywhere after it.         *)
(***************************************************************************)
link_match(s, i) ==
    IF ~(i = 1 \/ s[i - 1] # "!") \/ s[i] # "[" THEN None
    ELSE LET j == FindChar(s, i + 1, "]") IN
         IF ~(j > i + 1 /\ HasAt(s, j + 1, <<"(">>)) THEN None
         ELSE LET g  == j + 2
                  p1 == FindChar(s, g, ")")
                  p2 == IF p1 = 0 THEN 0 ELSE FindChar(s, p1 + 1, ")")
              IN  IF ~(p1 > g) THEN None
                  ELSE IF p2 # 0
                  THEN [link_text |-> Slice(s, i + 1, j - 1),
                        link_url |-> Slice(s, g, p2 - 1), last |-> p2]
                  ELSE [link_text |-> Slice(s, i + 1, j - 1),
                        link_url |-> Slice(s, g, p1 - 1), last |-> p1]

\* re.sub(<link pattern>, save_link, text), scanning from i: the text with
\* placeholders and link_map as the sequence of (link_text, link_url), the
\* entry of __LINK_n__ at position n + 1
RECURSIVE extract_links(_, _, _, _)
extract_links(s, i, acc, links) ==
    IF i > Len(s) THEN [text |-> acc, link_map |-> links]
    ELSE LET m == link_match(s, i) IN
         IF m # None
         THEN extract_links(s, m.last + 1, acc \o placeholder(Len(links)),
                            Append(links, <<m.link_text, m.link_url>>))
         ELSE extract_links(s, i + 1, Append(acc, s[i]), links)

\* the backtick pattern of re.split (a backtick, one or more characters
\* other than a backtick, a backtick) matched at i: the position of the
\* closing backtick, or 0
code_match(s, i) ==
    IF i <= Len(s) /\ s[i] = BT
    THEN LET j == FindChar(s, i + 1, BT)
         IN  IF j > i + 1 THEN j ELSE 0
    ELSE 0

\* re.split(<backtick pattern>, text): the parts, code spans included; start is
\* the first position of the part being collected
RECURSIVE split_code(_, _, _)
split_code(s, i, start) ==
    IF i > Len(s) THEN << Slice(s, start, Len(s)) >>
    ELSE LET j == code_match(s, i) IN
         IF j # 0
         THEN << Slice(s, start, i - 1), Slice(s, i, j) >>
              \o split_code(s, j + 1, j + 1)
         ELSE split_code(s, i + 1, start)

\* _is_valid_url.  urlparse is modelled on the inputs explored here, which
\* hold no whitespace, no upper case and no IP literal: the URL is accepted
\* when it reads http://<netloc> or https://<netloc> with a non-empty netloc
\* (up to the first of / ? #) free of square brackets
RECURSIVE rstrip_paren(_)
rstrip_paren(u) ==
    IF u # <<>> /\ u[Len(u)] = ")" THEN rstrip_paren(Slice(u, 1, Len(u) - 1))
    ELSE u

netloc_from(u, i) ==
    LET J == {j \in i..Len(u) : u[j] \in {"/", "?", "#"}}
        e == IF J = {} THEN Len(u) + 1 ELSE CHOOSE j \in J : \A k \in J : j <= k
    IN  Slice(u, i, e - 1)

is_valid_url(url) ==
    LET u     == rstrip_paren(url)
        http  == <<"h", "t", "t", "p", ":", "/", "/">>
        https == <<"h", "t", "t", "p", "s", ":", "/", "/">>
        loc   == IF HasAt(u, 1, http) THEN netloc_from(u, 8)
                 ELSE IF HasAt(u, 1, https) THEN netloc_from(u, 9)
                 ELSE <<>>
    IN  /\ url # <<>>
        /\ \E k \in 1..Len(url) : url[k] \notin {" ", "\n"}
        /\ loc # <<>>
        /\ \A k \in 1..Len(loc) : loc[k] \notin {"[", "]"}

(***************************************************************************)
(* r'(~~[^~]+~~|\*\*[^*]+\*\*|\*[^*]+\*|__LINK_\d+__)' matched at i: None, *)
(* or the alternative that matched and the last position of the match.     *)
(***************************************************************************)
delimited_match(s, i, d) ==
    \* d d [^d]+ d d at i: the position of the first closing d, or 0
    IF HasAt(s, i, <<d, d>>)
    THEN LET j == FindChar(s, i + 2, d)
         IN  IF j > i + 2 /\ HasAt(s, j, <<d, d>>) THEN j ELSE 0
    ELSE 0

span_match(s, i) ==
    LET st == delimited_match(s, i, "~")
        bo == delimited_match(s, i, "*")
        it == IF s[i] = "*" THEN FindChar(s, i + 1, "*") ELSE 0
        de == IF HasAt(s, i, <<"_", "_", "L", "I", "N", "K", "_">>)
              THEN LET J == {j \in (i + 7)..Len(s) : ~IsDigit(s[j])}
                   IN  IF J = {} THEN Len(s) + 1
                       ELSE CHOOSE j \in J : \A k \in J : j <= k
              ELSE 0
    IN  IF st # 0 THEN [kind |-> "strikethrough", last |-> st + 1]
        ELSE IF bo # 0 THEN [kind |-> "bold", last |-> bo + 1]
        ELSE IF it > i + 1 THEN [kind |-> "italic", last |-> it]
        ELSE IF de > i + 7 /\ HasAt(s, de, <<"_", "_">>)
             THEN [kind |-> "link", last |-> de + 1]
        ELSE None

\* link_map[matched_text]: None stands for the KeyError
link_lookup(link_map, matched_text) ==
    LET N == {n \in 1..Len(link_map) : placeholder(n - 1) = matched_text}
    IN  IF N = {} THEN None ELSE link_map[CHOOSE n \in N : TRUE]

\* the runs appended for one match of the span pattern; <<None>> stands for
\* the KeyError of link_map[matched_text]
span_runs(matched_text, kind, link_map) ==
    IF kind = "link" THEN
        LET e == link_lookup(link_map, matched_text) IN
        IF e = None THEN <<None>>
        ELSE IF is_valid_url(e[2])
             THEN << Run(truncate(e[1]), "none", e[2]) >>
             ELSE << Run(truncate(<<"[">> \o e[1] \o <<"]", "(">> \o e[2]
                                  \o <<")">>), "none", None) >>
    ELSE IF kind = "italic"
         THEN << Run(truncate(Slice(matched_text, 2, Len(matched_text) - 1)),
                     kind, None) >>
         ELSE << Run(truncate(Slice(matched_text, 3, Len(matched_text) - 2)),
                     kind, None) >>

\* the finditer loop over one non-code part, from position i, with
\* current_pos = cur
RECURSIVE scan_spans(_, _, _, _)
scan_spans(part, i, cur, link_map) ==
    IF i > Len(part)
    THEN IF cur <= Len(part)
         THEN << Run(truncate(Slice(part, cur, Len(part))), "none", None) >>
         ELSE <<>>
    ELSE LET m == span_match(part, i) IN
         IF m = None THEN scan_spans(part, i + 1, cur, link_map)
         ELSE (IF i > cur
               THEN << Run(truncate(Slice(part, cur, i - 1)), "none", None) >>
               ELSE <<>>)
              \o span_runs(Slice(part, i, m.last), m.kind, link_map)
              \o scan_spans(part, m.last + 1, m.last + 1, link_map)

\* the runs of one part of the split
part_runs(part, link_map) ==
    IF part = <<>> THEN <<>>
    ELSE IF part[1] = BT /\ part[Len(part)] = BT
    THEN LET code_text == Slice(part, 2, Len(part) - 1) IN
         IF code_text # <<>> THEN << Run(truncate(code_text), "code", None) >>
         ELSE <<>>
    ELSE scan_spans(part, 1, 1, link_map)

RECURSIVE parts_runs(_, _, _)
parts_runs(parts, n, link_map) ==
    IF n > Len(parts) THEN <<>>
    ELSE part_runs(parts[n], link_map) \o parts_runs(parts, n + 1, link_map)

\* rich_text if rich_text else [{"type": "text", "text": {"content": ""}}]
rich_text_or_empty(rich_text) ==
    IF rich_text # <<>> THEN rich_text ELSE << Run(<<>>, "none", None) >>

\* plausible bug: emphasis is scanned before the links are put aside
parse_rich_text_no_placeholders(t) ==
    [raised |-> FALSE,
     rich_text |-> rich_text_or_empty(parts_runs(split_code(t, 1, 1), 1, <<>>))]

\* _parse_rich_text: the runs, or raised when link_map[matched_text] raises
parse_rich_text(t) ==
    LET x    == extract_links(t, 1, <<>>, <<>>)
        runs == parts_runs(split_code(x.text, 1, 1), 1, x.link_map)
    IN  IF \E n \in 1..Len(runs) : runs[n] = None
        THEN [raised |-> TRUE, rich_text |-> <<>>]
        ELSE [raised |-> FALSE, rich_text |-> rich_text_or_empty(runs)]

\* ------------------------------------------- ObsidianToNotionConverter
\* a block: its type, its rich text (the caption of an image) and the URL of
\* an image
Block(type, rich_text, url) == [type |-> type, rich_text |-> rich_text, url |-> url]

\* not text.strip()
IsBlank(s) == \A k \in 1..Len(s) : s[k] \in {" ", "\n"}

\* heading
heading(bs, t, level) ==
    LET heading_types == <<"heading_1", "heading_2", "heading_3">>
        lv == IF level > 3 THEN 3 ELSE level
    IN  Append(bs, Block(heading_types[lv], << Run(truncate(t), "none", None) >>, None))

\* paragraph: the blocks, or raised when _parse_rich_text raises
paragraph(bs, t) ==
    IF IsBlank(t) THEN [raised |-> FALSE, blocks |-> bs]
    ELSE LET r == parse_rich_text(t) IN
         IF r.raised THEN [raised |-> TRUE, blocks |-> bs]
         ELSE [raised |-> FALSE,
               blocks |-> Append(bs, Block("paragraph", r.rich_text, None))]

\* block_code: one code block per chunk of 2000 characters
RECURSIVE block_code(_, _)
block_code(bs, code) ==
    IF code = <<>> THEN bs
    ELSE block_code(
            Append(bs, Block("code", << Run(Take(code, ContentLimit), "none", None) >>, None)),
            Slice(code, ContentLimit + 1, Len(code)))

\* block_quote
block_quote(bs, t) ==
    Append(bs, Block("quote", << Run(truncate(t), "none", None) >>, None))

\* list: the new current_list_type
list(ordered) == IF ordered THEN "numbered_list_item" ELSE "bulleted_list_item"

\* list_item: the blocks, or raised when _parse_rich_text raises
list_item(bs, clt, t) ==
    LET list_type == IF clt # "None" THEN clt ELSE "bulleted_list_item"
        r == parse_rich_text(t)
    IN  IF r.raised THEN [raised |-> TRUE, blocks |-> bs]
        ELSE [raised |-> FALSE,
              blocks |-> Append(bs, Block(list_type, r.rich_text, None))]

\* image
image(bs, t, url) ==
    IF url = <<>> \/ IsBlank(url) THEN bs
    ELSE Append(bs, Block("image",
                          IF t # <<>> THEN << Run(truncate(t), "none", None) >>
                          ELSE <<>>,
                          url))

\* thematic_break
thematic_break(bs) == Append(bs, Block("divider", <<>>, None))

\* ------------------------------------------------- resolve_relative_path
Letters == {"a", "b", "c", "d", "e", "f", "g", "h", "i", "j", "k", "l", "m",
            "n", "o", "p", "q", "r", "s", "t", "u", "v", "w", "x", "y", "z"}

\* s.lstrip() and s.strip() for the white space of the texts explored here
RECURSIVE lstrip(_)
lstrip(s) == IF s # <<>> /\ s[1] \in {" ", "\n"} THEN lstrip(Tail(s)) ELSE s

RECURSIVE rstrip(_)
rstrip(s) ==
    IF s # <<>> /\ s[Len(s)] \in {" ", "\n"}
    THEN rstrip(Slice(s, 1, Len(s) - 1)) ELSE s

strip(s) == rstrip(lstrip(s))

\* is_url: urlparse finds a scheme (a letter, then letters, digits, + - .
\* up to the first colon) and, after //, a non-empty netloc.  urlparse drops
\* leading blanks, and raises (so that is_url is False) on a netloc with
\* square brackets that is no IP literal.
is_url(path) ==
    LET u == lstrip(path)
        c == FindChar(u, 1, ":")
        loc == netloc_from(u, c + 3)
    IN  /\ c > 1
        /\ u[1] \in Letters
        /\ \A k \in 1..(c - 1) : u[k] \in Letters \/ IsDigit(u[k])
                                 \/ u[k] \in {"+", "-", "."}
        /\ HasAt(u, c + 1, <<"/", "/">>)
        /\ loc # <<>>
        /\ \A k \in 1..Len(loc) : loc[k] \notin {"[", "]"}

\* the character a percent escape stands for (the escapes of the texts
\* explored here), or None
unquote_code(h1, h2) ==
    CASE <<h1, h2>> = <<"2", "0">> -> <<" ">>
      [] <<h1, h2>> = <<"2", "1">> -> <<"!">>
      [] <<h1, h2>> = <<"2", "5">> -> <<"%">>
      [] <<h1, h2>> = <<"2", "8">> -> <<"(">>
      [] <<h1, h2>> = <<"2", "9">> -> <<")">>
      [] <<h1, h2>> = <<"2", "A">> -> <<"*">>
      [] <<h1, h2>> = <<"2", "E">> -> <<".">>
      [] <<h1, h2>> = <<"2", "F">> -> <<"/">>
      [] <<h1, h2>> = <<"5", "B">> -> <<"[">>
      [] <<h1, h2>> = <<"5", "D">> -> <<"]">>
      [] OTHER -> None

\* plausible bug: the reference is not decoded
unquote_off(s, i) == s

\* urllib.parse.unquote(s), scanning from i
RECURSIVE unquote(_, _)
unquote(s, i) ==
    IF i > Len(s) THEN <<>>
    ELSE IF s[i] = "%" /\ i + 2 <= Len(s) /\ unquote_code(s[i + 1], s[i + 2]) # None
    THEN unquote_code(s[i + 1], s[i + 2]) \o unquote(s, i + 3)
    ELSE <<s[i]>> \o unquote(s, i + 1)

\* decode_url_path
decode_url_path(path) == unquote(path, 1)

\* the components of Path(s): empty components and "." are dropped
path_parts(s) ==
    SelectSeq(SplitSlash(s, 1, 1), LAMBDA c : c # <<>> /\ c # <<".">>)

\* base / s: an absolute s replaces base
path_join(base, s) ==
    IF s # <<>> /\ s[1] = "/" THEN path_parts(s) ELSE base \o path_parts(s)

\* Path(s).name
path_name(s) ==
    LET parts == path_parts(s)
    IN  IF parts = <<>> THEN <<>> ELSE parts[Len(parts)]

\* is p a prefix of q
IsPrefix(p, q) == Len(p) <= Len(q) /\ SubSeq(q, 1, Len(p)) = p

\* Path.is_file and Path.is_dir on a normalised path
IsFile(parts) == \E p \in Paths : FS[p].kind = "file" /\ FS[p].parts = parts

IsDir(parts) ==
    \/ \E p \in Paths : /\ FS[p].kind # "missing"
                        /\ Len(parts) < Len(FS[p].parts)
                        /\ IsPrefix(parts, FS[p].parts)
    \/ \E p \in Paths : FS[p].kind = "dir" /\ FS[p].parts = parts

\* the path the operating system reaches by following parts from cur, ..
\* included: every component but the last is walked through a directory
RECURSIVE os_walk(_, _, _)
os_walk(parts, n, cur) ==
    IF n > Len(parts)
    THEN [ok |-> IsDir(cur) \/ IsFile(cur), parts |-> cur]
    ELSE IF ~IsDir(cur) THEN [ok |-> FALSE, parts |-> <<>>]
    ELSE IF parts[n] = <<".", ".">>
    THEN os_walk(parts, n + 1,
                 IF cur = <<>> THEN <<>> ELSE SubSeq(cur, 1, Len(cur) - 1))
    ELSE os_walk(parts, n + 1, Append(cur, parts[n]))

\* p.exists() and p.is_file()
is_existing_file(parts) ==
    LET w == os_walk(parts, 1, <<>>) IN w.ok /\ IsFile(w.parts)

\* str(p.resolve()) of an existing file: the name of the file
resolved(parts) ==
    LET w == os_walk(parts, 1, <<>>)
    IN  CHOOSE p \in Paths : FS[p].kind = "file" /\ FS[p].parts = w.parts

\* the result of resolve_relative_path
ResUrl(u)   == [kind |-> "url", url |-> u, path |-> ""]
ResFile(p)  == [kind |-> "file", url |-> <<>>, path |-> p]
Unresolved  == [kind |-> "none", url |-> <<>>, path |-> ""]

attachment_folders ==
    << ATTACHMENTS, <<"A", "t", "t", "a", "c", "h", "m", "e", "n", "t", "s">>,
       ASSETS, <<"A", "s", "s", "e", "t", "s">>,
       <<"f", "i", "l", "e", "s">>, <<"F", "i", "l", "e", "s">>,
       <<"i", "m", "a", "g", "e", "s">>, <<"I", "m", "a", "g", "e", "s">>,
       <<"p", "d", "f", "s">>, <<"P", "D", "F", "s">> >>

(***************************************************************************)
(* fnmatch of name against the pattern pat, from positions j and i: * is   *)
(* any run of characters, ? any character, [seq] a character of seq and    *)
(* [!seq] a character not of seq (an opening bracket without its closing   *)
(* bracket is a literal); the patterns explored here hold no range.        *)
(***************************************************************************)
RECURSIVE fnmatch(_, _, _, _)
fnmatch(pat, i, name, j) ==
    IF i > Len(pat) THEN j > Len(name)
    ELSE IF pat[i] = "*"
    THEN fnmatch(pat, i + 1, name, j)
         \/ (j <= Len(name) /\ fnmatch(pat, i, name, j + 1))
    ELSE IF pat[i] = "?"
    THEN j <= Len(name) /\ fnmatch(pat, i + 1, name, j + 1)
    ELSE IF pat[i] = "["
    THEN LET neg   == HasAt(pat, i + 1, <<"!">>)
             first == IF neg THEN i + 2 ELSE i + 1
             from  == IF HasAt(pat, first, <<"]">>) THEN first + 1 ELSE first
             close == FindChar(pat, from, "]")
         IN  IF close = 0
             THEN /\ j <= Len(name) /\ name[j] = "["
                  /\ fnmatch(pat, i + 1, name, j + 1)
             ELSE /\ j <= Len(name)
                  /\ (neg # (\E k \in first..(close - 1) : pat[k] = name[j]))
                  /\ fnmatch(pat, close + 1, name, j + 1)
    ELSE j <= Len(name) /\ name[j] = pat[i] /\ fnmatch(pat, i + 1, name, j + 1)

\* plausible bug: the recursive search looks for the exact name only
rglob_selects_exact(pattern, name) == name = pattern

\* the selector of Path.rglob(pattern) for one name: a pattern without
\* wildcard characters selects the name itself, another one is matched
rglob_selects(pattern, name) ==
    IF \E k \in 1..Len(pattern) : pattern[k] \in {"*", "?", "["}
    THEN fnmatch(pattern, 1, name, 1)
    ELSE name = pattern

(***************************************************************************)
(* The files "for item in md_dir.rglob(file_name): if item.is_file()" may  *)
(* reach first.  rglob walks the tree under dir in pre-order, a directory  *)
(* before its subdirectories and the entries of a directory in the order   *)
(* the operating system lists them: a selected file is reached first when  *)
(* no directory above its own, from dir down, holds a selected file.       *)
(***************************************************************************)
selected_in(d, pattern) ==
    {p \in Paths : /\ FS[p].kind = "file"
                   /\ FS[p].parts = Append(d, FS[p].name)
                   /\ rglob_selects(pattern, FS[p].name)}

rglob_first(dir, pattern) ==
    {p \in Paths :
        LET d == SubSeq(FS[p].parts, 1, Len(FS[p].parts) - 1) IN
        /\ IsPrefix(dir, d)
        /\ p \in selected_in(d, pattern)
        /\ \A n \in Len(dir)..(Len(d) - 1) :
              selected_in(SubSeq(d, 1, n), pattern) = {}}

\* the attachment folders loop, from the n-th folder on
RECURSIVE in_attachment_folders(_, _, _)
in_attachment_folders(dir, file_name, n) ==
    IF n > Len(attachment_folders) THEN Unresolved
    ELSE LET folder_path == dir \o << attachment_folders[n] >> \o path_parts(file_name)
         IN  IF is_existing_file(folder_path) THEN ResFile(resolved(folder_path))
             ELSE in_attachment_folders(dir, file_name, n + 1)

\* resolve_relative_path(file_path, markdown_file_path, vault_dir): the
\* results it may return
resolve_relative_path(file_path0, dir) ==
    IF is_url(file_path0) THEN {ResUrl(file_path0)}
    ELSE
    LET file_path == strip(decode_url_path(file_path0))
        is_single_folder == dir = vault_path
        relative_path == path_join(dir, file_path)
        file_name == path_name(file_path)
        in_folders == in_attachment_folders(dir, file_name, 1)
        vault_relative == path_join(vault_path, file_path)
    IN  IF file_path = <<>> THEN {Unresolved}
        ELSE IF is_existing_file(relative_path)
        THEN {ResFile(resolved(relative_path))}
        ELSE IF is_single_folder
        THEN IF in_folders # Unresolved THEN {in_folders}
             ELSE IF file_name # <<>> /\ rglob_first(dir, file_name) # {}
             THEN {ResFile(p) : p \in rglob_first(dir, file_name)}
             ELSE {Unresolved}
        ELSE IF is_existing_file(vault_relative)
        THEN {ResFile(resolved(vault_relative))}
        ELSE {Unresolved}

\* ------------------------------ parse_markdown_to_blocks: image references
\* (?=\s|$|\n|!|\[) at position k
image_lookahead(s, k) == k > Len(s) \/ s[k] \in {" ", "\n", "!", "["}

\* The image pattern of re.sub (line 798) matched at i: None, or the alt
\* text, the source and the last position of the match.  The pattern reads
\* "![", an alt text without closing bracket, "](", a source, ")" and a
\* lookahead; the source is the shortest non-empty run without a newline
\* that a closing parenthesis followed by the lookahead ends.
image_match(s, i) ==
    IF ~HasAt(s, i, <<"!", "[">>) THEN None
    ELSE LET j == FindChar(s, i + 2, "]") IN
         IF ~(j # 0 /\ HasAt(s, j + 1, <<"(">>)) THEN None
         ELSE LET g == j + 2
                  E == {e \in (g + 1)..Len(s) :
                           /\ s[e] = ")"
                           /\ \A k \in g..(e - 1) : s[k] # "\n"
                           /\ image_lookahead(s, e + 1)}
              IN  IF E = {} THEN None
                  ELSE LET e == CHOOSE x \in E : \A y \in E : x <= y
                       IN  [alt |-> Slice(s, i + 2, j - 1),
                            src |-> Slice(s, g, e - 1),
                            full_match |-> Slice(s, i, e), first |-> i, last |-> e]

\* the first match of the image pattern at or after position i, or None
RECURSIVE next_image(_, _)
next_image(s, i) ==
    IF i > Len(s) THEN None
    ELSE IF image_match(s, i) # None THEN image_match(s, i)
    ELSE next_image(s, i + 1)

\* re.search(r'\]\((.+)\)$', full_match).group(1), or None: the text between
\* the first "](" that a closing parenthesis at the end can follow and that
\* closing parenthesis
src_search(full_match) ==
    LET n == Len(full_match)
        K == {k \in 1..(n - 3) :
                 /\ HasAt(full_match, k, <<"]", "(">>)
                 /\ full_match[n] = ")"
                 /\ \A x \in (k + 2)..(n - 1) : full_match[x] # "\n"}
    IN  IF K = {} THEN None
        ELSE Slice(full_match, (CHOOSE k \in K : \A y \in K : k <= y) + 2, n - 1)

\* f"![{alt}]({src})"
image_ref(alt, src) == <<"!", "[">> \o alt \o <<"]", "(">> \o src \o <<")">>

\* plausible bug: a reference that could not be rewritten is dropped
unresolved_ref_dropped(alt, src) == <<>>

\* return f"![{alt}]({src})" of the branches that upload nothing
unresolved_ref(alt, src) == image_ref(alt, src)

\* plausible bug: the hosted URL is not remembered
uploaded_images_store_skip(u, src, file_url) == u

\* uploaded_images[src] = file_url
uploaded_images_store(u, src, file_url) ==
    [k \in DOMAIN u \cup {src} |-> IF k = src THEN file_url ELSE u[k]]

(***************************************************************************)
(* upload_and_replace_image for one match: the replacement, the new        *)
(* uploaded_images, cache and stats, whether resolve_relative_path and     *)
(* uploader.upload were called, and the URL the reference now points at    *)
(* (None when it points at its original source).  res is the result of     *)
(* resolve_relative_path and resp the answer of the provider.              *)
(***************************************************************************)
upload_and_replace_image(m, u, c, s, res, resp) ==
    LET src == src_search(m.full_match)
        keep == [uploaded_images |-> u, cache |-> c, stats |-> s,
                 resolver |-> FALSE, uploader |-> FALSE, upload |-> None,
                 file_url |-> None]
    IN  IF src = None THEN [text |-> m.full_match] @@ keep
        ELSE IF is_url(src) THEN [text |-> image_ref(m.alt, src)] @@ keep
        ELSE IF src \in DOMAIN u
        THEN [text |-> image_ref(m.alt, u[src])] @@ [keep EXCEPT !.file_url = u[src]]
        ELSE IF res.kind = "file"
        THEN LET r == upload(c, s, res.path, get_unique_path_for_file(res.path), resp)
                 called == [keep EXCEPT !.resolver = TRUE, !.uploader = TRUE,
                                        !.cache = r.cache, !.stats = r.stats,
                                        !.upload = [path |-> res.path, key |-> r.key,
                                                    invoked |-> r.invoked,
                                                    url |-> r.url]]
             IN  IF r.url # None
                 THEN [text |-> image_ref(m.alt, r.url)]
                      @@ [called EXCEPT !.file_url = r.url,
                             !.uploaded_images = uploaded_images_store(u, src, r.url)]
                 ELSE [text |-> unresolved_ref(m.alt, src)] @@ called
        ELSE [text |-> unresolved_ref(m.alt, src)]
             @@ [keep EXCEPT !.resolver = TRUE]

\* ------------------------------------------ create_notion_page and main
\* the stems of the markdown files; two files of different folders may
\* share a stem (get_markdown_files walks the folder recursively)
Titles == {<<"A">>, <<"B">>}

\* new_page["url"]: every created page has a URL of its own
new_page_url(n) == <<"u">> \o IntToStr(n)

\* the text of a document that links to the document named target
content_of(target) == <<"[", "[">> \o target \o <<"]", "]">>

\* plausible bug: the next batch starts one block too far
next_batch_start_skip(i) == i + BatchSize + 1

\* range(0, len(blocks), batch_size): the start of the batch after i
next_batch_start(i) == i + BatchSize

\* blocks[i:i+batch_size], as the 1-based indices of the blocks
batch_of(i, n) == [j \in 1..(Min(i + BatchSize, n) - i) |-> i + j]

\* page_map[title] = page_url
page_map_store(pm, title, url) ==
    [t \in DOMAIN pm \cup {title} |-> IF t = title THEN url ELSE pm[t]]

\* main, "if page_id:" branch
doc_succeeded ==
    /\ page_map' = page_map_store(page_map, files[idx], page_url')
    /\ successful' = successful + 1
    /\ failed' = failed
    /\ results' = Append(results, "ok")
    /\ idx' = idx + 1
    /\ pc' = "loop"

\* create_notion_page returns (None, None) from its except clauses and main
\* counts the document as failed
doc_failed ==
    /\ page_map' = page_map
    /\ successful' = successful
    /\ failed' = failed + 1
    /\ results' = Append(results, "failed")
    /\ idx' = idx + 1
    /\ pc' = "loop"

\* plausible bug: main has no except clause and the exception ends the run
main_on_exception_abort ==
    /\ page_map' = page_map
    /\ successful' = successful
    /\ failed' = failed
    /\ results' = results
    /\ idx' = idx
    /\ pc' = "done"

\* main, "except Exception as e:" around one document
main_on_exception ==
    /\ page_map' = page_map
    /\ successful' = successful
    /\ failed' = failed + 1
    /\ results' = Append(results, "failed")
    /\ idx' = idx + 1
    /\ pc' = "loop"

InitMain ==
    /\ files \in UNION {[1..n -> Titles] : n \in 0..MaxDocs}
    /\ pc = "loop"
    /\ idx = 1
    /\ page_map = <<>>
    /\ successful = 0
    /\ failed = 0
    /\ attempts = <<>>
    /\ results = <<>>
    /\ pages = 0
    /\ page_url = None
    /\ nblocks = 0
    /\ bi = 0
    /\ bk = 0
    /\ calls = <<>>
    /\ rendered = <<>>

(***************************************************************************)
(* One iteration of main's loop up to the first blocks.children.append:    *)
(* read_text, pages.create, parse_markdown_to_blocks.  what is the step    *)
(* that raises, or "parsed"; nb is the number of blocks of the document.   *)
(***************************************************************************)
StartDoc(what, nb, target) ==
    /\ pc = "loop"
    /\ idx <= Len(files)
    /\ attempts' = Append(attempts, idx)
    /\ calls' = <<>>
    /\ bi' = 0
    /\ bk' = 0
    /\ UNCHANGED <<files, upVars, textVars, imgVars, renderVars>>
    /\ CASE what = "read_error" ->
                /\ main_on_exception
                /\ UNCHANGED <<pages, page_url, nblocks, rendered>>
         [] what = "create_error" ->
                /\ doc_failed
                /\ UNCHANGED <<pages, page_url, nblocks, rendered>>
         [] what = "parse_error" ->
                /\ pages' = pages + 1
                /\ page_url' = new_page_url(pages + 1)
                /\ doc_failed
                /\ UNCHANGED <<nblocks, rendered>>
         [] OTHER ->
                /\ pages' = pages + 1
                /\ page_url' = new_page_url(pages + 1)
                /\ rendered' = convert_obsidian_links(content_of(target), page_map)
                /\ nblocks' = nb
                /\ IF nb = 0
                   THEN doc_succeeded
                   ELSE /\ pc' = "batch"
                        /\ UNCHANGED <<page_map, successful, failed, results, idx>>

\* notion.blocks.children.append(block_id=page_id, children=batch)
SubmitBatch(ok) ==
    /\ pc = "batch"
    /\ calls' = Append(calls, [kind |-> "batch", blocks |-> batch_of(bi, nblocks),
                               ok |-> ok])
    /\ UNCHANGED <<files, attempts, pages, page_url, nblocks, rendered, bk,
                   upVars, textVars, imgVars, renderVars>>
    /\ IF ok
       THEN /\ bi' = next_batch_start(bi)
            /\ IF next_batch_start(bi) >= nblocks
               THEN doc_succeeded
               ELSE UNCHANGED <<pc, page_map, successful, failed, results, idx>>
       ELSE /\ bi' = bi
            /\ pc' = "single"
            /\ UNCHANGED <<page_map, successful, failed, results, idx>>

\* plausible bug: the per-block loop stops at the first block that fails
single_loop_ends_on_failure(k, n, ok) == k = n \/ ~ok

\* the per-block loop ends after the last block of the batch
single_loop_ends(k, n, ok) == k = n

\* notion.blocks.children.append(block_id=page_id, children=[single_block]),
\* and the bare raise after the last block of the batch
SubmitSingle(ok) ==
    /\ pc = "single"
    /\ calls' = Append(calls, [kind |-> "single",
                               blocks |-> << batch_of(bi, nblocks)[bk + 1] >>,
                               ok |-> ok])
    /\ bk' = bk + 1
    /\ UNCHANGED <<files, attempts, pages, page_url, nblocks, rendered, bi,
                   upVars, textVars, imgVars, renderVars>>
    /\ IF single_loop_ends(bk + 1, Len(batch_of(bi, nblocks)), ok)
       THEN doc_failed
       ELSE UNCHANGED <<pc, page_map, successful, failed, results, idx>>

\* the loop over markdown_files is over
Finish ==
    /\ pc = "loop"
    /\ idx > Len(files)
    /\ pc' = "done"
    /\ UNCHANGED <<files, idx, page_map, successful, failed, attempts, results,
                   pages, page_url, nblocks, bi, bk, calls, rendered,
                   upVars, textVars, imgVars, renderVars>>

\* ------------------------------------------------------ bounded inputs
\* the strings over the characters of S of length lo..hi
Words(S, lo, hi) == UNION {[1..n -> S] : n \in lo..hi}

RECURSIVE Concat(_, _)
Concat(ss, n) == IF n > Len(ss) THEN <<>> ELSE ss[n] \o Concat(ss, n + 1)

\* A token of a link normaliser input: a plain character, an embed ![[a]],
\* a cross-reference [[a]] or a cross-reference with display text [[a|b]].
\* A plain character is none of ! and [, which would join the token after it.
Token(k, a, b) == [k |-> k, a |-> a, b |-> b]

Tokens ==
       {Token("plain", <<c>>, <<>>) : c \in {"c", " ", "]", "("}}
  \cup {Token("embed", x, <<>>) :
            x \in {<<"A">>, <<"p", "|", "2">>, <<"x", " ", "y">>}}
  \cup {Token("wiki", a, <<>>) : a \in Titles}
  \cup {Token("wikibar", a, b) : a \in Titles, b \in {<<>>, <<"d">>, <<"A">>}}

token_text(t) ==
    CASE t.k = "plain"   -> t.a
      [] t.k = "embed"   -> <<"!", "[", "[">> \o t.a \o <<"]", "]">>
      [] t.k = "wiki"    -> <<"[", "[">> \o t.a \o <<"]", "]">>
      [] t.k = "wikibar" -> <<"[", "[">> \o t.a \o <<"|">> \o t.b \o <<"]", "]">>

PageMaps ==
    { <<>>,
      [t \in {<<"A">>} |-> <<"u", "1">>],
      [t \in Titles |-> IF t = <<"A">> THEN <<"u", "1">> ELSE <<"u", "2">>] }

\* How a formatter input is put together: free text; a link [d](t); or a
\* code span around body, between pre and post.
Shape(kind, d, t, pre, body, post) ==
    [kind |-> kind, d |-> d, t |-> t, pre |-> pre, body |-> body, post |-> post]

HttpX == <<"h", "t", "t", "p", ":", "/", "/", "x", "/">>
LinkAX == <<"[", "a", "]", "(">> \o HttpX \o <<")">>

FreeShapes == {Shape("free", s, <<>>, <<>>, <<>>, <<>>) :
                  s \in Words({"a", "*", "~", BT, " "}, 0, MaxLen)}

LinkShapes == {Shape("link", d, HttpX \o w, <<>>, <<>>, <<>>) :
                  d \in Words({"a", "*", "~", BT}, 1, MaxText),
                  w \in Words({"y", "*", "~"}, 0, MaxWord)}

CodeShapes == {Shape("code", <<>>, <<>>, pre, body, post) :
                  pre \in {<<>>, <<"a">>}, post \in {<<>>, <<"a">>},
                  body \in Words({"a", "*", "~"}, 1, MaxText)
                           \cup {LinkAX, <<"[", "a", "]", "(", "b", ")">>}}

\* a line of one or two links [d](t) with plain text before, between and
\* after them
MaxSep == 2

HttpY == <<"h", "t", "t", "p", "s", ":", "/", "/", "y">>

LinksShape(pre, links, sep, post) ==
    [kind |-> "links", pre |-> pre, links |-> links, sep |-> sep, post |-> post]

LinksShapes ==
       {LinksShape(pre, << <<d, t>> >>, <<>>, post) :
            pre \in {<<>>, <<"c">>}, post \in {<<>>, <<"c">>, <<" ", "(", "c", ")">>},
            d \in {<<"a">>}, t \in {HttpX, HttpY}}
  \cup {LinksShape(pre, << <<d1, t1>>, <<d2, HttpY>> >>, sep, post) :
            pre \in {<<>>, <<"c">>}, post \in {<<>>, <<"c">>},
            d1 \in {<<"a">>}, d2 \in {<<"b">>}, t1 \in {HttpX, HttpY},
            sep \in Words({"c", " ", "(", ")"}, 1, MaxSep)}

\* a line that holds text of the placeholder form which the formatter did
\* not produce, after a link or not
LiteralShape(links, n) ==
    [kind |-> "literal", links |-> links, n |-> n]

LiteralShapes ==
    {LiteralShape(links, n) : links \in {<<>>, << <<<<"a">>, HttpX>> >>}, n \in 0..1}

link_text(l) == <<"[">> \o l[1] \o <<"]", "(">> \o l[2] \o <<")">>

shape_text(sh) ==
    CASE sh.kind = "free" -> sh.d
      [] sh.kind = "links" ->
            sh.pre \o link_text(sh.links[1])
            \o (IF Len(sh.links) = 2 THEN sh.sep \o link_text(sh.links[2]) ELSE <<>>)
            \o sh.post
      [] sh.kind = "literal" ->
            (IF sh.links = <<>> THEN <<>> ELSE link_text(sh.links[1]))
            \o <<" ">> \o placeholder(sh.n)
      [] sh.kind = "link" -> <<"[">> \o sh.d \o <<"]", "(">> \o sh.t \o <<")">>
      [] sh.kind = "code" -> sh.pre \o <<BT>> \o sh.body \o <<BT>> \o sh.post

\* ------------------------------------------------------ specifications
IdleMain ==
    /\ files = <<>> /\ pc = "idle" /\ idx = 1 /\ page_map = <<>>
    /\ successful = 0 /\ failed = 0 /\ attempts = <<>> /\ results = <<>>
    /\ pages = 0 /\ page_url = None /\ nblocks = 0 /\ bi = 0 /\ bk = 0
    /\ calls = <<>> /\ rendered = <<>>

IdleText ==
    /\ text = <<>> /\ pmap = <<>> /\ out = <<>> /\ shape = <<>>
    /\ blocks = <<>> /\ current_list_type = "None" /\ phase = "idle"

IdleImg ==
    /\ md_dir = <<>> /\ found = <<>> /\ uploaded_images = <<>> /\ pos = 1
    /\ imglog = <<>>

IdleRender == pending = <<>> /\ origin = <<>>

\* the run of main over a list of markdown files
Init == InitMain /\ InitUploader /\ IdleText /\ IdleImg /\ IdleRender

Next ==
    \/ \E what \in {"read_error", "create_error", "parse_error", "parsed"},
          nb \in 0..MaxBlocks, target \in Titles : StartDoc(what, nb, target)
    \/ \E ok \in BOOLEAN : SubmitBatch(ok)
    \/ \E ok \in BOOLEAN : SubmitSingle(ok)
    \/ Finish

Spec == Init /\ [][Next]_vars

\* a sequence of FileUploader.upload calls on one uploader
InitUpload == InitUploader /\ IdleMain /\ IdleText /\ IdleImg /\ IdleRender

NextUpload == \E file_path \in Paths, resp \in Responses : Upload(file_path, resp)

SpecUpload == InitUpload /\ [][NextUpload]_vars

\* convert_obsidian_links applied to a text made of tokens
InitLinks ==
    /\ InitUploader /\ IdleMain /\ IdleRender /\ IdleImg
    /\ shape \in UNION {[1..n -> Tokens] : n \in 0..MaxTokens}
    /\ text = Concat([n \in 1..Len(shape) |-> token_text(shape[n])], 1)
    /\ pmap \in PageMaps
    /\ out = <<>>
    /\ blocks = <<>>
    /\ current_list_type = "None"
    /\ phase = "in"

Normalize ==
    /\ phase = "in"
    /\ out' = convert_obsidian_links(text, pmap)
    /\ phase' = "out"
    /\ UNCHANGED <<text, pmap, shape, blocks, current_list_type, upVars, mainVars, imgVars, renderVars>>

NextLinks == Normalize

SpecLinks == InitLinks /\ [][NextLinks]_vars

\* one callback of the renderer on a fresh converter
InitRich ==
    /\ InitUploader /\ IdleMain /\ IdleRender /\ IdleImg
    /\ shape \in FreeShapes \cup LinkShapes \cup CodeShapes \cup LinksShapes
                 \cup LiteralShapes
    /\ text = shape_text(shape)
    /\ pmap = <<>>
    /\ out = <<>>
    /\ blocks = <<>>
    /\ current_list_type = "None"
    /\ phase = "in"

Callback(bs) ==
    /\ phase = "in"
    /\ blocks' = bs
    /\ phase' = "out"
    /\ UNCHANGED <<text, pmap, out, shape, current_list_type, upVars, mainVars, imgVars, renderVars>>

\* a callback that calls _parse_rich_text, which may raise
CallbackRaising(r) ==
    /\ phase = "in"
    /\ blocks' = r.blocks
    /\ phase' = IF r.raised THEN "raised" ELSE "out"
    /\ UNCHANGED <<text, pmap, out, shape, current_list_type, upVars, mainVars, imgVars, renderVars>>

DoHeading(level) == Callback(heading(blocks, text, level))
DoParagraph == CallbackRaising(paragraph(blocks, text))
DoBlockCode == Callback(block_code(blocks, text))
DoBlockQuote == Callback(block_quote(blocks, text))
DoListItem == CallbackRaising(list_item(blocks, current_list_type, text))
DoImage(url) == Callback(image(blocks, text, url))
DoThematicBreak == Callback(thematic_break(blocks))

DoList(ordered) ==
    /\ phase = "in"
    /\ current_list_type = "None"
    /\ current_list_type' = list(ordered)
    /\ UNCHANGED <<text, pmap, out, shape, blocks, phase, upVars, mainVars, imgVars, renderVars>>

NextRich ==
    \/ \E level \in 1..4 : DoHeading(level)
    \/ DoParagraph
    \/ DoBlockCode
    \/ DoBlockQuote
    \/ \E ordered \in BOOLEAN : DoList(ordered)
    \/ DoListItem
    \/ \E url \in {<<>>, <<" ">>, HttpX} : DoImage(url)
    \/ DoThematicBreak

SpecRich == InitRich /\ [][NextRich]_vars

\* resolve_relative_path applied to a reference from a document of the
\* vault directory (single-folder mode) or of a subfolder (vault mode)
MaxRefParts == 2

RefParts ==
    { A_PNG, P_PNG, BR_PNG, SUB, <<"x">>, <<".", ".">>,
      <<"*", ".", "p", "n", "g">>, <<"x", "%", "2", "0", "y">>, <<"d", "i", "r">> }

Refs ==
    {JoinParts(ps, 1) : ps \in UNION {[1..n -> RefParts] : n \in 1..MaxRefParts}}
    \cup {<<>>, <<" ">>, <<"%", "2", "0">>, HttpX \o A_PNG, <<" ">> \o A_PNG,
          <<"/">> \o JoinParts(<<O, A_PNG>>, 1)}

DocDirs == {<<V>>, <<V, SUB>>}

InitResolve ==
    /\ InitUploader /\ IdleMain /\ IdleRender
    /\ text \in Refs
    /\ md_dir \in DocDirs
    /\ found = <<>>
    /\ pmap = <<>> /\ out = <<>> /\ shape = <<>> /\ blocks = <<>>
    /\ current_list_type = "None"
    /\ uploaded_images = <<>> /\ pos = 1 /\ imglog = <<>>
    /\ phase = "in"

Resolve ==
    /\ phase = "in"
    /\ found' \in resolve_relative_path(text, md_dir)
    /\ phase' = "out"
    /\ UNCHANGED <<text, pmap, out, shape, blocks, current_list_type, md_dir,
                   uploaded_images, pos, imglog, upVars, mainVars, renderVars>>

NextResolve == Resolve

SpecResolve == InitResolve /\ [][NextResolve]_vars

\* the attachment rewrite pass of parse_markdown_to_blocks over a text made
\* of image references and plain characters
MaxImgTokens == 3

ImgSrcs ==
    { A_PNG, <<"x", "%", "2", "0", "y">>, <<"g", "(", "1", ")">>,
      <<"b", "i", "g", ".", "b", "i", "n">>, HttpX \o A_PNG }

ImgTokens ==
       {Token("plain", <<c>>, <<>>) : c \in {"c", " "}}
  \cup {Token("image", <<>>, src) : src \in ImgSrcs}
  \cup {Token("image", <<"c">>, A_PNG)}

img_token_text(t) ==
    IF t.k = "plain" THEN t.a ELSE image_ref(t.a, t.b)

InitImages ==
    /\ InitUploader /\ IdleMain /\ IdleRender
    /\ shape \in UNION {[1..n -> ImgTokens] : n \in 0..MaxImgTokens}
    /\ text = Concat([n \in 1..Len(shape) |-> img_token_text(shape[n])], 1)
    /\ md_dir \in DocDirs
    /\ found = <<>>
    /\ pmap = <<>> /\ out = <<>> /\ blocks = <<>>
    /\ current_list_type = "None"
    /\ uploaded_images = <<>> /\ pos = 1 /\ imglog = <<>>
    /\ phase = "in"

\* resolve_relative_path(urllib.parse.unquote(src), markdown_file_path,
\* vault_dir) for the match m: the results it may return
resolve_choices(m, dir) ==
    IF src_search(m.full_match) = None THEN {Unresolved}
    ELSE resolve_relative_path(unquote(src_search(m.full_match), 1), dir)

\* re.sub calls upload_and_replace_image on the next match
RewriteImage(resp) ==
    /\ phase = "in"
    /\ next_image(text, pos) # None
    /\ \E m \in {next_image(text, pos)} :
       \E res \in resolve_choices(m, md_dir) :
       \E r \in {upload_and_replace_image(m, uploaded_images, cache, stats,
                                          res, resp)} :
          /\ out' = out \o Slice(text, pos, m.first - 1) \o r.text
          /\ pos' = m.last + 1
          /\ uploaded_images' = r.uploaded_images
          /\ cache' = r.cache
          /\ stats' = r.stats
          /\ uplog' = IF r.uploader THEN Append(uplog, r.upload) ELSE uplog
          /\ imglog' = Append(imglog,
                              [alt |-> m.alt, src |-> m.src,
                               resolver |-> r.resolver,
                               uploader |-> r.uploader,
                               file_url |-> r.file_url, text |-> r.text])
    /\ UNCHANGED <<text, pmap, shape, blocks, current_list_type, phase, md_dir,
                   found, mainVars, renderVars>>

\* re.sub copies the text after the last match
RewriteEnd ==
    /\ phase = "in"
    /\ next_image(text, pos) = None
    /\ out' = out \o Slice(text, pos, Len(text))
    /\ pos' = Len(text) + 1
    /\ phase' = "out"
    /\ UNCHANGED <<text, pmap, shape, blocks, current_list_type, md_dir, found,
                   uploaded_images, imglog, upVars, mainVars, renderVars>>

NextImages ==
    \/ \E resp \in Responses : RewriteImage(resp)
    \/ RewriteEnd

SpecImages == InitImages /\ [][NextImages]_vars

(***************************************************************************)
(* markdown(content): the renderer walks the parsed document and calls the *)
(* converter.  A container is rendered after its children: the renderer    *)
(* first renders the children of a token to the text it then hands to the  *)
(* token's own callback, so that the callbacks of the children of a        *)
(* paragraph, of a block quote and of a list are made before the           *)
(* callback of the container.                                              *)
(*                                                                         *)
(* A document is a sequence of top-level constructs: a heading, a          *)
(* paragraph (with an image after its first words or not), a block quote   *)
(* around a paragraph, a tight list of one or two items, a thematic break  *)
(* or a code block.  Every construct is numbered by where it starts in the *)
(* source text: a container before what it holds.                          *)
(***************************************************************************)
MaxNodes == 3
MaxItems == 2

Node(k, img, ordered, items) ==
    [k |-> k, img |-> img, ordered |-> ordered, items |-> items]

Nodes ==
       {Node(k, FALSE, FALSE, 0) : k \in {"heading", "quote", "break", "code"}}
  \cup {Node("para", img, FALSE, 0) : img \in BOOLEAN}
  \cup {Node("list", FALSE, ordered, items) :
            ordered \in BOOLEAN, items \in 1..MaxItems}

Docs == UNION {[1..n -> Nodes] : n \in 1..MaxNodes}

\* the number of constructs of a node
node_size(nd) ==
    CASE nd.k = "para"  -> IF nd.img THEN 2 ELSE 1
      [] nd.k = "quote" -> 2
      [] nd.k = "list"  -> 1 + nd.items
      [] OTHER          -> 1

\* a callback of the renderer: the method, its text, the ordered flag of a
\* list callback (for an item: of the list that holds it) and the number of
\* the construct it is made for
Event(cb, t, ordered, id) == [cb |-> cb, text |-> t, ordered |-> ordered, id |-> id]

\* the callbacks made for one node whose constructs are numbered from b + 1
node_events(nd, b) ==
    CASE nd.k = "heading" -> << Event("heading", <<"a">>, FALSE, b + 1) >>
      [] nd.k = "break"   -> << Event("thematic_break", <<>>, FALSE, b + 1) >>
      [] nd.k = "code"    -> << Event("block_code", <<"a">>, FALSE, b + 1) >>
      [] nd.k = "para"    ->
            IF nd.img
            THEN << Event("image", <<>>, FALSE, b + 2),
                    Event("paragraph", <<"a", " ">>, FALSE, b + 1) >>
            ELSE << Event("paragraph", <<"a">>, FALSE, b + 1) >>
      [] nd.k = "quote"   ->
            << Event("paragraph", <<"a">>, FALSE, b + 2),
               Event("block_quote", <<>>, FALSE, b + 1) >>
      [] nd.k = "list"    ->
            [j \in 1..nd.items |-> Event("list_item", <<"a">>, nd.ordered, b + 1 + j)]
            \o << Event("list", <<>>, nd.ordered, b + 1) >>

\* the callbacks made for the document, from its n-th node on
RECURSIVE render_order(_, _, _)
render_order(doc, n, b) ==
    IF n > Len(doc) THEN <<>>
    ELSE node_events(doc[n], b) \o render_order(doc, n + 1, b + node_size(doc[n]))

InitRender ==
    /\ InitUploader /\ IdleMain /\ IdleImg
    /\ shape \in Docs
    /\ pending = render_order(shape, 1, 0)
    /\ origin = <<>>
    /\ text = <<>> /\ pmap = <<>> /\ out = <<>>
    /\ blocks = <<>>
    /\ current_list_type = "None"
    /\ phase = "in"

\* the renderer makes its next callback, which leaves the blocks bs and the
\* list type clt
Rendering(cb, bs, clt) ==
    /\ phase = "in"
    /\ pending # <<>>
    /\ Head(pending).cb = cb
    /\ blocks' = bs
    /\ current_list_type' = clt
    /\ origin' = origin \o [n \in 1..(Len(bs) - Len(blocks)) |-> Head(pending)]
    /\ pending' = Tail(pending)
    /\ phase' = IF Tail(pending) = <<>> THEN "out" ELSE "in"
    /\ UNCHANGED <<text, pmap, out, shape, upVars, mainVars, imgVars>>

RenderHeading ==
    Rendering("heading", heading(blocks, Head(pending).text, 1), current_list_type)
RenderParagraph ==
    Rendering("paragraph", paragraph(blocks, Head(pending).text).blocks,
              current_list_type)
RenderBlockCode ==
    Rendering("block_code", block_code(blocks, Head(pending).text), current_list_type)
RenderBlockQuote ==
    Rendering("block_quote", block_quote(blocks, Head(pending).text),
              current_list_type)
RenderListItem ==
    Rendering("list_item",
              list_item(blocks, current_list_type, Head(pending).text).blocks,
              current_list_type)
RenderList ==
    Rendering("list", blocks, list(Head(pending).ordered))
RenderImage ==
    Rendering("image", image(blocks, Head(pending).text, HttpX), current_list_type)
RenderThematicBreak ==
    Rendering("thematic_break", thematic_break(blocks), current_list_type)

NextRender ==
    \/ RenderHeading
    \/ RenderParagraph
    \/ RenderBlockCode
    \/ RenderBlockQuote
    \/ RenderListItem
    \/ RenderList
    \/ RenderImage
    \/ RenderThematicBreak

SpecRender == InitRender /\ [][NextRender]_vars

\* ================================================================ claims
Range(f) == {f[x] : x \in DOMAIN f}

\* ------------------------------------------------------------------- C1
\* C1 as stated: over any sequence of upload calls, whatever the provider
\* answers, the provider function is invoked at most once for each cache key
\* (resolved path, content hash).
C1_AtMostOneInvocation ==
    \A i, j \in 1..Len(uplog) :
        (i < j /\ uplog[i].invoked /\ uplog[j].invoked)
            => uplog[i].key # uplog[j].key

\* C1 as amended: once the provider function has returned a URL for a cache
\* key it is never invoked again for that key (a failed upload is not cached
\* and is tried again by the next call).
C1_AtMostOneSuccess ==
    \A i, j \in 1..Len(uplog) :
        (i < j /\ uplog[i].invoked /\ uplog[i].url # None
               /\ uplog[j].key = uplog[i].key)
            => ~uplog[j].invoked

\* a failed upload, the same file uploaded again with success, then a hit
C1_Witness ==
    /\ Len(uplog) >= 3
    /\ uplog[1].invoked /\ uplog[1].url = None
    /\ uplog[2].key = uplog[1].key /\ uplog[2].invoked /\ uplog[2].url # None
    /\ uplog[3].key = uplog[1].key /\ ~uplog[3].invoked
    /\ uplog[3].url = uplog[2].url

\* ------------------------------------------------------------------- C2
ByteIdentical(p, q) ==
    /\ FS[p].kind = "file" /\ FS[q].kind = "file"
    /\ FS[p].readable /\ FS[q].readable
    /\ FS[p].hash = FS[q].hash

DocFinished == pc \in {"loop", "done"} /\ results # <<>>
LastResult == results[Len(results)]
FailedBatchAt(n) == calls[n].kind = "batch" /\ ~calls[n].ok

\* every block of the batch that failed at n was then submitted alone, in
\* order, and nothing else was submitted after it
RetriedOneByOne(n) ==
    LET b == calls[n].blocks IN
    /\ Len(calls) = n + Len(b)
    /\ \A j \in 1..Len(b) :
          calls[n + j].kind = "single" /\ calls[n + j].blocks = << b[j] >>

\* C3 as stated: after a batch failed every block of it is submitted alone in
\* order, and the document is failed if and only if one of these submissions
\* failed.
C3_ReraiseIffBlockFailed ==
    DocFinished =>
        \A n \in 1..Len(calls) :
            FailedBatchAt(n) =>
                /\ RetriedOneByOne(n)
                /\ (LastResult = "failed"
                      <=> \E j \in 1..Len(calls[n].blocks) : ~calls[n + j].ok)

\* C3 as amended: after a batch failed every block of it is submitted alone
\* in order, whatever the individual outcomes, and the failure is then raised
\* again in every case: the document is failed even when every block
\* succeeded alone.
C3_RetryThenReraise ==
    DocFinished =>
        \A n \in 1..Len(calls) :
            FailedBatchAt(n) => (RetriedOneByOne(n) /\ LastResult = "failed")

\* a batch of two failed, its first block failed alone, its second block was
\* still submitted and succeeded
C3_Witness ==
    /\ DocFinished
    /\ \E n \in 1..Len(calls) :
          /\ FailedBatchAt(n)
          /\ Len(calls[n].blocks) >= 2
          /\ Len(calls) = n + Len(calls[n].blocks)
          /\ ~calls[n + 1].ok
          /\ calls[n + 2].ok
          /\ LastResult = "failed"

\* ------------------------------------------------------------------- C4
Submitted(b) == \E m \in 1..Len(calls) : b \in Range(calls[m].blocks)
RejectedAt(n) == calls[n].kind = "single" /\ ~calls[n].ok

\* C4 as stated: when a block was rejected, every other block of the
\* document, those of later batches included, has been submitted at least
\* once when the result of the document is decided.
C4_AllOtherBlocksSubmitted ==
    DocFinished =>
        \A n \in 1..Len(calls) :
            RejectedAt(n) => \A b \in 1..nblocks : Submitted(b)

\* the last block of the batch that block b belongs to
LastOfBatch(b) ==
    LET starts == {n \in 1..Len(calls) :
                      calls[n].kind = "batch" /\ b \in Range(calls[n].blocks)}
        n0 == CHOOSE n \in starts : TRUE
    IN  calls[n0].blocks[Len(calls[n0].blocks)]

\* C4 as amended: when a block was rejected, every block of its batch and of
\* the batches before it has been submitted at least once when the result of
\* the document is decided, and no block of a later batch is ever submitted.
C4_SameBatchSubmitted ==
    DocFinished =>
        \A n \in 1..Len(calls) :
            RejectedAt(n) =>
                LET last == LastOfBatch(calls[n].blocks[1]) IN
                /\ \A b \in 1..last : Submitted(b)
                /\ \A b \in (last + 1)..nblocks : ~Submitted(b)

\* the first block was rejected, the other blocks of its batch were
\* submitted, and the document has a later batch
C4_Witness ==
    /\ DocFinished
    /\ \E n \in 1..Len(calls) :
          /\ RejectedAt(n)
          /\ calls[n].blocks[1] = 1
          /\ nblocks > LastOfBatch(1)
          /\ Submitted(LastOfBatch(1))

\* ------------------------------------------------------------------- C5
\* C5: a failure of a document never ends the run: the documents are
\* attempted once each in list order, every finished attempt is counted once
\* as successful or failed, the run can always take a step until it is done,
\* and it ends with successful + failed = N.
C5_RunCompletes ==
    /\ attempts = [j \in 1..Len(attempts) |-> j]
    /\ Len(attempts) <= Len(files)
    /\ successful + failed = Len(results)
    /\ Len(results) = Len(attempts) - (IF pc \in {"batch", "single"} THEN 1 ELSE 0)
    /\ (pc # "done" => ENABLED Next)
    /\ (pc = "done" => /\ Len(attempts) = Len(files)
                       /\ successful + failed = Len(files))

\* a run that is over, whose first document failed and whose second succeeded
C5_Witness ==
    /\ pc = "done"
    /\ Len(files) >= 2
    /\ results[1] = "failed"
    /\ results[2] = "ok"

\* ------------------------------------------------------------------- C6
\* C6 as stated: the page map is write-once per key: a title that is present
\* stays present and keeps its URL.
C6_WriteOnce ==
    [][\A t \in DOMAIN page_map :
          t \in DOMAIN page_map' /\ page_map'[t] = page_map[t]]_vars

\* ------------------------------------------------------------------- C7
\* what the claim says a token becomes
token_expected(t, pm) ==
    CASE t.k = "plain"   -> t.a
      [] t.k = "embed"   -> <<"!", "[", "]", "(">> \o t.a \o <<")">>
      [] t.k = "wiki"    ->
            IF t.a \in DOMAIN pm
            THEN <<"[">> \o t.a \o <<"]", "(">> \o pm[t.a] \o <<")">>
            ELSE t.a
      [] t.k = "wikibar" ->
            IF t.a \in DOMAIN pm
            THEN <<"[">> \o t.b \o <<"]", "(">> \o pm[t.a] \o <<")">>
            ELSE t.b

\* C7: every embed ![[x]] becomes ![](x); every cross-reference [[A|B]] (or
\* [[A]], with B = A) becomes [B](U) when A is a key of the page map with
\* URL U and the bare text B when it is not; the text between them is kept.
C7_Normalized ==
    phase = "out" =>
        out = Concat([n \in 1..Len(shape) |-> token_expected(shape[n], pmap)], 1)

\* an embed followed by a cross-reference with a display text whose target
\* is in the page map
C7_Witness ==
    /\ phase = "out"
    /\ Len(shape) = 2
    /\ shape[1].k = "embed"
    /\ shape[2].k = "wikibar" /\ shape[2].a \in DOMAIN pmap /\ shape[2].b = <<"d">>
    /\ out = <<"!", "[", "]", "(">> \o shape[1].a
             \o <<")", "[", "d", "]", "(">> \o pmap[shape[2].a] \o <<")">>

\* ------------------------------------------------------------------- C8
ParsedBlock ==
    /\ phase = "out"
    /\ Len(blocks) = 1
    /\ blocks[1].type \in {"paragraph", "bulleted_list_item", "numbered_list_item"}

\* C8: a text that consists of a link [d](t) with an http URL t is formatted
\* as a single link run with content d and target t, whatever emphasis
\* markers d and t hold.
C8_SingleLinkRun ==
    (ParsedBlock /\ shape.kind = "link")
        => blocks[1].rich_text = << Run(truncate(shape.d), "none", shape.t) >>

\* the paragraph [a](http://x/*y*)
C8_Witness ==
    /\ ParsedBlock
    /\ blocks[1].type = "paragraph"
    /\ shape.kind = "link"
    /\ shape.d = <<"a">>
    /\ shape.t = HttpX \o <<"*", "y", "*">>
    /\ blocks[1].rich_text = << Run(<<"a">>, "none", HttpX \o <<"*", "y", "*">>) >>

\* ------------------------------------------------------------------- C9
PlainRun(s) == IF s = <<>> THEN <<>> ELSE << Run(truncate(s), "none", None) >>

\* C9 as stated: the code run of a backtick-delimited span holds exactly the
\* text between the backticks (up to the cap on a run), whatever that text
\* holds, link syntax included.
C9_CodeSpanLiteral ==
    (ParsedBlock /\ shape.kind = "code")
        => blocks[1].rich_text =
              PlainRun(shape.pre)
              \o << Run(truncate(shape.body), "code", None) >>
              \o PlainRun(shape.post)

\* ------------------------------------------------------------------ C10
ParsedTypes == {"paragraph", "bulleted_list_item", "numbered_list_item"}

\* C10: in every block, each run has a content of at most the cap, a run
\* with empty content is the only run of its rich text, and the rich text
\* that _parse_rich_text returned is never empty.
C10_RichTextWellFormed ==
    \A n \in 1..Len(blocks) :
        LET rt == blocks[n].rich_text IN
        /\ \A k \in 1..Len(rt) :
              /\ Len(rt[k].content) <= ContentLimit
              /\ (rt[k].content = <<>> => Len(rt) = 1)
        /\ (blocks[n].type \in ParsedTypes => rt # <<>>)

\* a paragraph whose text is longer than the cap and whose run was cut to it
C10_Witness ==
    /\ ParsedBlock
    /\ blocks[1].type = "paragraph"
    /\ Len(text) > ContentLimit
    /\ Len(blocks[1].rich_text) = 1
    /\ blocks[1].rich_text[1].content = Take(text, ContentLimit)

\* ------------------------------------------------------------------ C17
\* the file lies under the vault directory
UnderVault(p) ==
    /\ Len(FS[p].parts) > Len(vault_path)
    /\ SubSeq(FS[p].parts, 1, Len(vault_path)) = vault_path

\* C17 as stated: two distinct files under the vault directory are never
\* sent to the same destination of the provider: the URLs the provider
\* returned for them (the raw base followed by the destination path) differ.
C17_DistinctDestinations ==
    \A i, j \in 1..Len(uplog) :
        (/\ uplog[i].invoked /\ uplog[j].invoked
         /\ uplog[i].url # None /\ uplog[j].url # None
         /\ uplog[i].path # uplog[j].path
         /\ UnderVault(uplog[i].path) /\ UnderVault(uplog[j].path))
            => uplog[i].url # uplog[j].url

\* ------------------------------------------------------------------ C18
\* the provider calls of the log that returned a URL
Uploaded(log) == {n \in 1..Len(log) : log[n].invoked /\ log[n].url # None}

\* C18: after every upload call, images + pdfs + other is the number of
\* entries of the cache and the number of provider calls that returned a
\* URL; a cache hit changes no counter and makes no provider call; a call
\* on a missing path increments only failed, a call on a directory only
\* skipped_dirs, and a failed provider call only failed, each leaving the
\* cache unchanged.
C18_StatsAccount ==
    [][LET e == uplog'[Len(uplog')]
           f == FS[e.path]
       IN  /\ stats'.images + stats'.pdfs + stats'.other
                 = Cardinality(DOMAIN cache')
           /\ Cardinality(DOMAIN cache') = Cardinality(Uploaded(uplog'))
           /\ (e.key # None /\ e.key \in DOMAIN cache)
                 => (~e.invoked /\ stats' = stats /\ cache' = cache)
           /\ f.kind = "missing"
                 => (/\ ~e.invoked /\ cache' = cache
                     /\ stats' = [stats EXCEPT !.failed = @ + 1])
           /\ f.kind = "dir"
                 => (/\ ~e.invoked /\ cache' = cache
                     /\ stats' = [stats EXCEPT !.skipped_dirs = @ + 1])
           /\ (e.invoked /\ e.url = None)
                 => (/\ cache' = cache
                     /\ stats' = [stats EXCEPT !.failed = @ + 1])]_vars

\* an image and a PDF were uploaded, and the image was then served from the
\* cache: two uploads counted, two entries, three calls
C18_Witness ==
    /\ Len(uplog) = 3
    /\ uplog[1].invoked /\ uplog[1].url # None
    /\ uplog[2].invoked /\ uplog[2].url # None
    /\ ~uplog[3].invoked /\ uplog[3].url = uplog[1].url
    /\ stats = [images |-> 1, pdfs |-> 1, other |-> 0, failed |-> 0,
                skipped_dirs |-> 0]
    /\ Cardinality(DOMAIN cache) = 2

\* ------------------------------------------------------------------ C13
\* the files under dir whose name is exactly name
NamedUnder(dir, name) ==
    {p \in Paths : /\ FS[p].kind = "file"
                   /\ IsPrefix(dir, FS[p].parts)
                   /\ FS[p].name = name}

\* the first attachment folder of dir, from the n-th on, that holds a
\* regular file called name
RECURSIVE FirstFolderWith(_, _, _)
FirstFolderWith(dir, name, n) ==
    IF n > Len(attachment_folders) THEN 0
    ELSE IF IsFile(dir \o << attachment_folders[n], name >>) THEN n
    ELSE FirstFolderWith(dir, name, n + 1)

\* what the claim says the resolver answers
C13_Expected(ref, dir) ==
    LET decoded  == strip(decode_url_path(ref))
        basename == path_name(decoded)
        folder   == FirstFolderWith(dir, basename, 1)
    IN  IF is_url(ref) THEN {ResUrl(ref)}
        ELSE IF decoded = <<>> THEN {Unresolved}
        ELSE IF is_existing_file(path_join(dir, decoded))
        THEN {ResFile(resolved(path_join(dir, decoded)))}
        ELSE IF dir = vault_path
        THEN IF folder # 0
             THEN {ResFile(resolved(dir \o << attachment_folders[folder], basename >>))}
             ELSE IF NamedUnder(dir, basename) # {}
             THEN {ResFile(p) : p \in NamedUnder(dir, basename)}
             ELSE {Unresolved}
        ELSE IF is_existing_file(path_join(vault_path, decoded))
        THEN {ResFile(resolved(path_join(vault_path, decoded)))}
        ELSE {Unresolved}

\* C13 as stated: the resolver follows the strategies in order, first success
\* wins: a URL is returned unchanged; an empty decoded reference is
\* unresolved; the file at the reference relative to the document's
\* directory wins; otherwise, in single-folder mode, the basename is looked
\* up in the attachment folders in list order and then by recursive search,
\* and in vault mode the reference is tried relative to the vault; when no
\* candidate is a regular file the result is unresolved.
C13_FirstSuccessWins ==
    phase = "out" => found \in C13_Expected(text, md_dir)

\* ------------------------------------------------------------------ C11
\* the image references of a text, in order: the matches of the image
\* pattern from position i on, as pairs of alt text and target
RECURSIVE ImageRefs(_, _)
ImageRefs(s, i) ==
    LET m == next_image(s, i)
    IN  IF m = None THEN <<>>
        ELSE << <<m.alt, m.src>> >> \o ImageRefs(s, m.last + 1)

\* the target the claim gives the n-th matched reference: its own target
\* when that is a URL or when nothing was uploaded for it, the hosted URL
\* otherwise
C11_Target(n) ==
    IF is_url(imglog[n].src) \/ imglog[n].file_url = None
    THEN imglog[n].src
    ELSE imglog[n].file_url

\* C11: every matched image reference is replaced by an image reference with
\* the same alt text, left as it is when its target is a URL, pointing at
\* the hosted URL the uploader returned when one was obtained, and at the
\* original target otherwise; when the pass is over the image references of
\* the result are those references, one for one and in order, so that none
\* was dropped and their number is unchanged.
C11_NeverDropped ==
    /\ \A n \in 1..Len(imglog) :
          /\ imglog[n].text = image_ref(imglog[n].alt, C11_Target(n))
          /\ is_url(imglog[n].src) => imglog[n].text = image_ref(imglog[n].alt, imglog[n].src)
          /\ (~is_url(imglog[n].src) /\ imglog[n].file_url # None)
                => /\ HasAt(imglog[n].file_url, 1, RawBase)
                   /\ \E k \in 1..Len(uplog) : uplog[k].url = imglog[n].file_url
    /\ phase = "out" =>
          /\ ImageRefs(out, 1) = [n \in 1..Len(imglog) |->
                                     <<imglog[n].alt, C11_Target(n)>>]
          /\ Len(ImageRefs(out, 1)) = Len(ImageRefs(text, 1))

\* a finished pass over three references: a URL left as it is, a file that
\* was uploaded, and a reference that did not resolve
C11_Witness ==
    /\ phase = "out"
    /\ Len(imglog) = 3
    /\ is_url(imglog[1].src) /\ imglog[1].text = image_ref(<<>>, imglog[1].src)
    /\ imglog[2].uploader /\ imglog[2].file_url # None
    /\ imglog[2].text = image_ref(<<>>, imglog[2].file_url)
    /\ imglog[3].resolver /\ ~imglog[3].uploader
    /\ imglog[3].text = image_ref(<<>>, imglog[3].src)
    /\ Len(ImageRefs(out, 1)) = 3

\* ------------------------------------------------------------------ C12
\* C12 as stated: a reference that is not a URL is passed to the resolver
\* and to the uploader at most once in a document: after its first
\* occurrence, whether that one succeeded or failed, neither is called for
\* it again.
C12_AtMostOnce ==
    \A i, j \in 1..Len(imglog) :
        (i < j /\ imglog[i].src = imglog[j].src /\ ~is_url(imglog[i].src))
            => (~imglog[j].resolver /\ ~imglog[j].uploader)

\* C12 as amended: once a reference has been rewritten to a hosted URL,
\* its later occurrences in the document are rewritten to the same URL
\* without calling the resolver or the uploader; a reference that is not a
\* URL and has not been rewritten yet is passed to the resolver at each
\* occurrence, and to the uploader whenever it resolves to a file.
C12_CachedAfterSuccess ==
    /\ \A i, j \in 1..Len(imglog) :
          (/\ i < j /\ imglog[i].src = imglog[j].src
           /\ ~is_url(imglog[i].src) /\ imglog[i].file_url # None)
              => /\ ~imglog[j].resolver /\ ~imglog[j].uploader
                 /\ imglog[j].file_url = imglog[i].file_url
    /\ \A j \in 1..Len(imglog) :
          (/\ ~is_url(imglog[j].src)
           /\ \A i \in 1..(j - 1) :
                 imglog[i].src = imglog[j].src => imglog[i].file_url = None)
              => imglog[j].resolver

\* the same file referenced three times: its upload failed, then succeeded,
\* and the third occurrence was served from uploaded_images
C12_Witness ==
    /\ Len(imglog) = 3
    /\ imglog[1].src = imglog[2].src /\ imglog[2].src = imglog[3].src
    /\ imglog[1].uploader /\ imglog[1].file_url = None
    /\ imglog[2].resolver /\ imglog[2].uploader /\ imglog[2].file_url # None
    /\ ~imglog[3].resolver /\ ~imglog[3].uploader
    /\ imglog[3].file_url = imglog[2].file_url
    /\ Len(uplog) = 2

\* ------------------------------------------------------------------ C16
LinkRun(l) == Run(truncate(l[1]), "none", l[2])

\* C16 as stated: a line of k links [d_i](t_i) with http or https targets
\* and plain text around them is formatted as k link runs in order, the
\* i-th with content d_i and target t_i, with the text before, between and
\* after the links as unannotated runs.
C16_EachLinkItsOwnRun ==
    (ParsedBlock /\ shape.kind = "links")
        => blocks[1].rich_text =
              PlainRun(shape.pre)
              \o << LinkRun(shape.links[1]) >>
              \o (IF Len(shape.links) = 2
                  THEN PlainRun(shape.sep) \o << LinkRun(shape.links[2]) >>
                  ELSE <<>>)
              \o PlainRun(shape.post)

\* ------------------------------------------------------------------ C19
\* C19 as stated: the formatter returns runs for every text, a text that
\* itself holds __LINK_<n>__ included, and emits that text as literal
\* content: no callback raises on it, and the runs are the link before it,
\* if there is one, and the unannotated text.
C19_PlaceholderTextLiteral ==
    shape.kind = "literal" =>
        /\ phase # "raised"
        /\ ParsedBlock =>
              blocks[1].rich_text =
                 (IF shape.links = <<>> THEN <<>> ELSE << LinkRun(shape.links[1]) >>)
                 \o PlainRun(<<" ">> \o placeholder(shape.n))

\* ------------------------------------------------------------------ C14
\* C14 as stated: the blocks are appended in document order: a block of a
\* construct that starts earlier in the source precedes the block of a
\* construct that starts later, an image inside a paragraph and a
\* paragraph inside a block quote included.
C14_DocumentOrder ==
    \A i, j \in 1..Len(origin) : i < j => origin[i].id <= origin[j].id

\* ------------------------------------------------------------------ C15
\* C15 as stated: every list-item block has the type of the list that
\* holds it: numbered_list_item in an ordered list and bulleted_list_item
\* in an unordered one, the first list of the document and a list after a
\* list of the other type included.
C15_ItemHasTypeOfItsList ==
    \A n \in 1..Len(origin) :
        origin[n].cb = "list_item" =>
            blocks[n].type = IF origin[n].ordered THEN "numbered_list_item"
                             ELSE "bulleted_list_item"

=============================================================================
